---- MODULE Spec2Model ----
(***************************************************************************)
(* Model of DuplicateFileRemover.py: calculate_hash, find_duplicate_files, *)
(* delete_duplicates and main.                                             *)
(*                                                                         *)
(* The file system is a map from the paths os.walk lists as file names to  *)
(* directory entries.  An entry is a regular file (byte content, readable  *)
(* or not) or a symbolic link to another path (possibly a missing one).    *)
(* Two hard links to one inode are two regular entries with equal content: *)
(* the program never writes to a file, so sharing an inode is not          *)
(* observable by it.                                                       *)
(***************************************************************************)
EXTENDS Integers, Sequences, FiniteSets, TLC

\* ---- bounds of the model ------------------------------------------------
NumPaths == 3
MaxFileLen == 2

\* ---- program constant: default block_size of calculate_hash -------------
block_size == 65536

Paths == 1..NumPaths
Missing == 0
\* File contents are byte strings; one byte value is enough to tell contents
\* apart by what the program reads of them (their length and their digest).
Bytes == {1}

RECURSIVE SeqsUpTo(_)
SeqsUpTo(n) ==
    IF n = 0 THEN {<<>>}
    ELSE LET shorter == SeqsUpTo(n - 1)
         IN shorter \cup {Append(s, b) : s \in {t \in shorter : Len(t) = n - 1}, b \in Bytes}

Contents == SeqsUpTo(MaxFileLen)

Range(s) == {s[i] : i \in 1..Len(s)}

Min(a, b) == IF a < b THEN a ELSE b

\* ---- directory entries ---------------------------------------------------
RegularFile(c, r) == [kind |-> "file", content |-> c, readable |-> r, target |-> Missing]
SymLink(t) == [kind |-> "link", content |-> <<>>, readable |-> TRUE, target |-> t]
Absent == [kind |-> "absent", content |-> <<>>, readable |-> FALSE, target |-> Missing]

EntriesAt(p) ==
    {RegularFile(c, r) : c \in Contents, r \in BOOLEAN}
        \cup {SymLink(t) : t \in (Paths \ {p}) \cup {Missing}}

\* Following symbolic links as stat() and open() do: the regular file a path
\* resolves to, or Missing when the chain dangles, loops or the path is gone.
RECURSIVE ResolveN(_, _, _)
ResolveN(f, p, fuel) ==
    IF p = Missing \/ fuel = 0 THEN Missing
    ELSE IF f[p].kind = "file" THEN p
    ELSE IF f[p].kind = "link" THEN ResolveN(f, f[p].target, fuel - 1)
    ELSE Missing

Resolve(f, p) == ResolveN(f, p, NumPaths + 1)

\* os.path.getsize(path): os.stat(path).st_size; raises OSError when stat fails.
StatOK(f, p) == Resolve(f, p) # Missing
getsize(f, p) == Len(f[Resolve(f, p)].content)

\* ---- calculate_hash -------------------------------------------------------
\* hashlib.sha256 as an ideal (collision-free) incremental digest: the
\* accumulator is the stream fed so far, the hex digest wraps it.
None == <<>>
sha256_new == <<>>
sha256_update(acc, data) == acc \o data
hexdigest(acc) == <<acc>>

RECURSIVE ReadLoop(_, _, _)
ReadLoop(content, pos, acc) ==
    LET data == SubSeq(content, pos + 1, Min(pos + block_size, Len(content)))
    IN IF data = <<>> THEN acc
       ELSE ReadLoop(content, pos + Len(data), sha256_update(acc, data))

\* open(filepath, 'rb') raises IOError for a dangling path or a file without
\* read permission; the except clause turns it into None.
OpenOK(f, p) == StatOK(f, p) /\ f[Resolve(f, p)].readable

calculate_hash(f, p) ==
    IF ~OpenOK(f, p) THEN None
    ELSE hexdigest(ReadLoop(f[Resolve(f, p)].content, 0, sha256_new))

\* ---- Python dict `duplicates`: insertion-ordered list of (hash, paths) ---
DictKeys(d) == {d[i].hash : i \in 1..Len(d)}
DictIndex(d, h) == CHOOSE i \in 1..Len(d) : d[i].hash = h
DictGet(d, h) == d[DictIndex(d, h)].paths

\* `if os.path.getsize(file_path) > 0`
IsNonEmpty_mut(size) == size >= 0
IsNonEmpty(size) == size > 0

\* `duplicates[file_hash] = [file_hashes[file_hash]]`
NewGroup_mut(original) == <<>>
NewGroup(original) == <<original>>

\* `file_hashes[file_hash] = file_path`
StoreFirst_mut(fh, h, p) == fh
StoreFirst(fh, h, p) == fh @@ (h :> p)

\* `file_paths[1:]`
DuplicatesOf_mut(file_paths) == file_paths
DuplicatesOf(file_paths) == Tail(file_paths)

\* Position of the delete loops: group g, index i into file_paths[1:];
\* g = Len(d) + 1 when both loops are exhausted.
RECURSIVE Normalize(_, _, _)
Normalize(d, g, i) ==
    IF g > Len(d) THEN <<Len(d) + 1, 1>>
    ELSE IF i > Len(DuplicatesOf(d[g].paths)) THEN Normalize(d, g + 1, 1)
    ELSE <<g, i>>

\* `except OSError as e: messagebox.showerror(...)`, then the loop goes on.
OnOSError_mut(d, g, i) == <<Len(d) + 1, 1>>
OnOSError(d, g, i) == Normalize(d, g, i + 1)

\* `deleted_count += 1` / `space_saved += file_size`, after os.remove returned.
Accumulate_mut(total, amount, removed) == total + amount
Accumulate(total, amount, removed) == IF removed THEN total + amount ELSE total

VARIABLES
    pc,            \* position of the run in main
    fs,            \* the file system under the selected folder
    fs0,           \* the file system as it was when the run started
    rootIsDir,     \* os.path.isdir(folder_path)
    visited,       \* file paths os.walk has yielded so far, in order
    file_hashes,   \* find_duplicate_files: hash -> first path
    duplicates,    \* find_duplicate_files: hash -> [original, duplicate, ...]
    gi, pi,        \* delete_duplicates: loop position
    deleted_count, \* delete_duplicates: running count
    space_saved,   \* delete_duplicates: running byte total
    console,       \* paths printed as "Deleted: ..."
    messages       \* message boxes and windows shown, in order

vars == <<pc, fs, fs0, rootIsDir, visited, file_hashes, duplicates, gi, pi,
          deleted_count, space_saved, console, messages>>

scanVars == <<visited, file_hashes, duplicates>>
delVars == <<gi, pi, deleted_count, space_saved, console>>

Init ==
    /\ pc = "Idle"
    /\ fs \in [Paths -> UNION {EntriesAt(p) : p \in Paths}]
    /\ \A p \in Paths : fs[p] \in EntriesAt(p)
    /\ fs0 = fs
    /\ rootIsDir = TRUE
    /\ visited = <<>>
    /\ file_hashes = <<>>
    /\ duplicates = <<>>
    /\ gi = 1
    /\ pi = 1
    /\ deleted_count = 0
    /\ space_saved = 0
    /\ console = <<>>
    /\ messages = <<>>

\* main: askdirectory returned '' (dialog dismissed).
AskDirectoryNone ==
    /\ pc = "Idle"
    /\ pc' = "NoFolder"
    /\ messages' = Append(messages, <<"Cancelled", "No folder was selected">>)
    /\ UNCHANGED <<fs, fs0, rootIsDir, scanVars, delVars>>

\* main: a folder was chosen; find_duplicate_files is called.
AskDirectory(isdir) ==
    /\ pc = "Idle"
    /\ pc' = "Scanning"
    /\ rootIsDir' = isdir
    /\ UNCHANGED <<fs, fs0, scanVars, delVars, messages>>

\* find_duplicate_files: the root is not a directory; {} is returned and main
\* takes its else branch.
ScanInvalidRoot ==
    /\ pc = "Scanning"
    /\ ~rootIsDir
    /\ pc' = "NoDuplicates"
    /\ messages' = messages \o <<<<"Error", "not a valid directory">>,
                                 <<"No Duplicates Found", "">>>>
    /\ UNCHANGED <<fs, fs0, rootIsDir, scanVars, delVars>>

\* find_duplicate_files: one iteration of the walk, for the file path p.
ScanFile(p) ==
    /\ pc = "Scanning"
    /\ rootIsDir
    /\ p \in Paths \ Range(visited)
    /\ visited' = Append(visited, p)
    /\ IF ~StatOK(fs, p)
       THEN \* os.path.getsize raises OSError outside any try block
            /\ pc' = "ScanAborted"
            /\ UNCHANGED <<file_hashes, duplicates>>
       ELSE /\ pc' = pc
            /\ IF ~IsNonEmpty(getsize(fs, p))
               THEN UNCHANGED <<file_hashes, duplicates>>
               ELSE LET file_hash == calculate_hash(fs, p)
                    IN IF file_hash = None
                       THEN UNCHANGED <<file_hashes, duplicates>>
                       ELSE IF file_hash \in DOMAIN file_hashes
                       THEN /\ duplicates' =
                                 IF file_hash \notin DictKeys(duplicates)
                                 THEN Append(duplicates,
                                        [hash |-> file_hash,
                                         paths |-> Append(NewGroup(file_hashes[file_hash]), p)])
                                 ELSE [duplicates EXCEPT
                                        ![DictIndex(duplicates, file_hash)].paths = Append(@, p)]
                            /\ UNCHANGED file_hashes
                       ELSE /\ file_hashes' = StoreFirst(file_hashes, file_hash, p)
                            /\ UNCHANGED duplicates
    /\ UNCHANGED <<fs, fs0, rootIsDir, delVars, messages>>

\* The paths main lists in the confirmation text.
RECURSIVE Slated(_)
Slated(d) == IF d = <<>> THEN <<>> ELSE Tail(Head(d).paths) \o Slated(Tail(d))

\* find_duplicate_files returns; main branches on `if duplicates_found`.
ScanReturn ==
    /\ pc = "Scanning"
    /\ rootIsDir
    /\ Range(visited) = Paths
    /\ IF duplicates # <<>>
       THEN /\ pc' = "AwaitingConfirmation"
            /\ messages' = Append(messages, <<"Confirm Deletion", Slated(duplicates)>>)
       ELSE /\ pc' = "NoDuplicates"
            /\ messages' = Append(messages, <<"No Duplicates Found", "">>)
    /\ UNCHANGED <<fs, fs0, rootIsDir, scanVars, delVars>>

\* on_confirm: the window is destroyed and delete_duplicates starts.
on_confirm ==
    /\ pc = "AwaitingConfirmation"
    /\ pc' = "Deleting"
    /\ gi' = Normalize(duplicates, 1, 1)[1]
    /\ pi' = Normalize(duplicates, 1, 1)[2]
    /\ deleted_count' = 0
    /\ space_saved' = 0
    /\ messages' = IF duplicates = <<>>
                   THEN Append(messages, <<"No Duplicates Found", "">>)
                   ELSE messages
    /\ UNCHANGED <<fs, fs0, rootIsDir, scanVars, console>>

\* on_cancel: the window is destroyed and "Cancelled" is shown.
on_cancel_mut ==
    /\ pc = "AwaitingConfirmation"
    /\ pc' = "Deleting"
    /\ gi' = Normalize(duplicates, 1, 1)[1]
    /\ pi' = Normalize(duplicates, 1, 1)[2]
    /\ messages' = Append(messages, <<"Cancelled", "No files were deleted.">>)
    /\ UNCHANGED <<fs, fs0, rootIsDir, scanVars, deleted_count, space_saved, console>>

on_cancel ==
    /\ pc = "AwaitingConfirmation"
    /\ pc' = "Cancelled"
    /\ messages' = Append(messages, <<"Cancelled", "No files were deleted.">>)
    /\ UNCHANGED <<fs, fs0, rootIsDir, scanVars, delVars>>

\* The confirmation window is a Tk root with no WM_DELETE_WINDOW handler:
\* closing it destroys the window and neither callback runs.
CloseWindow ==
    /\ pc = "AwaitingConfirmation"
    /\ pc' = "WindowClosed"
    /\ UNCHANGED <<fs, fs0, rootIsDir, scanVars, delVars, messages>>

\* delete_duplicates: one iteration of the inner loop.  `denied` is the
\* operating system refusing os.remove (PermissionError).
DeleteStep(denied) ==
    /\ pc = "Deleting"
    /\ gi <= Len(duplicates)
    /\ LET duplicate_file == DuplicatesOf(duplicates[gi].paths)[pi]
           statOK == StatOK(fs, duplicate_file)
           removed == statOK /\ ~denied
           file_size == IF statOK THEN getsize(fs, duplicate_file) ELSE 0
           nxt == IF removed THEN Normalize(duplicates, gi, pi + 1)
                  ELSE OnOSError(duplicates, gi, pi)
       IN /\ fs' = IF removed THEN [fs EXCEPT ![duplicate_file] = Absent] ELSE fs
          /\ deleted_count' = Accumulate(deleted_count, 1, removed)
          /\ space_saved' = Accumulate(space_saved, file_size, removed)
          /\ console' = IF removed THEN Append(console, duplicate_file) ELSE console
          /\ messages' = IF removed THEN messages
                         ELSE Append(messages, <<"Error", duplicate_file>>)
          /\ gi' = nxt[1]
          /\ pi' = nxt[2]
    /\ UNCHANGED <<pc, fs0, rootIsDir, scanVars>>

\* delete_duplicates returns (deleted_count, space_saved); on_confirm shows it.
ShowSummary ==
    /\ pc = "Deleting"
    /\ gi > Len(duplicates)
    /\ pc' = "Summary"
    /\ messages' = Append(messages, <<"Summary", <<deleted_count, space_saved>>>>)
    /\ UNCHANGED <<fs, fs0, rootIsDir, scanVars, delVars>>

Next ==
    \/ AskDirectoryNone
    \/ \E isdir \in BOOLEAN : AskDirectory(isdir)
    \/ ScanInvalidRoot
    \/ \E p \in Paths : ScanFile(p)
    \/ ScanReturn
    \/ on_confirm
    \/ on_cancel
    \/ CloseWindow
    \/ \E denied \in BOOLEAN : DeleteStep(denied)
    \/ ShowSummary

Spec == Init /\ [][Next]_vars

\* ======================= properties =====================================

\* find_duplicate_files has returned the result of a completed walk.
ScanDone ==
    \/ pc \in {"AwaitingConfirmation", "Deleting", "Summary", "Cancelled", "WindowClosed"}
    \/ pc = "NoDuplicates" /\ rootIsDir

\* At scan time p was a non-empty file that could be opened and read.
Countable(p) ==
    LET r == Resolve(fs0, p)
    IN r # Missing /\ fs0[r].readable /\ fs0[r].content # <<>>
ContentAt0(p) == fs0[Resolve(fs0, p)].content
\* At scan time p was a zero-byte file (or a link to one).
ZeroByte(p) == StatOK(fs0, p) /\ fs0[Resolve(fs0, p)].content = <<>>

CountablePaths == {p \in Paths : Countable(p)}
SameContentPaths(c) == {p \in CountablePaths : ContentAt0(p) = c}
SharedContents ==
    LET cp == CountablePaths
    IN {c \in {ContentAt0(p) : p \in cp} :
            Cardinality({p \in cp : ContentAt0(p) = c}) >= 2}

\* Paths the program removed from the file system.
Removed == {p \in Paths : fs[p] # fs0[p]}
ErrorPaths == SelectSeq(messages, LAMBDA m : m[1] = "Error" /\ m[2] \in Paths)
ErrorSet == {ErrorPaths[i][2] : i \in 1..Len(ErrorPaths)}
ShownCancelled == \E i \in 1..Len(messages) : messages[i] = <<"Cancelled", "No files were deleted.">>

RECURSIVE SumSizes(_)
SumSizes(S) ==
    IF S = {} THEN 0
    ELSE LET p == CHOOSE q \in S : TRUE IN getsize(fs0, p) + SumSizes(S \ {p})

GroupIdx == 1..Len(duplicates)
GroupDups(g) == Range(Tail(duplicates[g].paths))

\* C1 (as stated): after the batch, no group's index-0 path was deleted and
\* exactly (group size - 1) paths of each group were deleted.
C1_ExactlySizeMinusOne ==
    pc = "Summary" =>
        \A g \in GroupIdx :
            /\ duplicates[g].paths[1] \notin Removed
            /\ Cardinality(GroupDups(g) \cap Removed) = Len(duplicates[g].paths) - 1

\* C1 (amended): no group's index-0 path is ever deleted or printed as
\* deleted; after the batch the paths deleted in a group are exactly its
\* index >= 1 paths whose removal did not fail, one report per failure.
C1_OriginalKept ==
    /\ \A g \in GroupIdx :
        /\ duplicates[g].paths[1] \notin Removed
        /\ duplicates[g].paths[1] \notin Range(console)
    /\ pc = "Summary" =>
        \A g \in GroupIdx :
            /\ GroupDups(g) \cap Removed = GroupDups(g) \ ErrorSet
            /\ Cardinality(GroupDups(g) \cap Removed)
                 = Len(duplicates[g].paths) - 1 - Cardinality(GroupDups(g) \cap ErrorSet)

C1_Witness ==
    /\ pc = "Summary"
    /\ \E g \in GroupIdx : Len(duplicates[g].paths) = 3
                             /\ Cardinality(GroupDups(g) \cap Removed) = 2

C3_ScanNeverAborts ==
    /\ pc # "ScanAborted"
    /\ ScanDone => \A p \in Paths : ~Countable(p) =>
                       \A g \in GroupIdx : p \notin Range(duplicates[g].paths)

\* C4: a failed removal is reported and the batch goes on: while deleting,
\* every slated path before the loop position was either removed or
\* reported, each once; after the batch that covers every slated path, and
\* a reported path is still there and counted nowhere.
Processed == Len(console) + Len(ErrorPaths)
C4_FailureDoesNotAbort ==
    pc \in {"Deleting", "Summary"} =>
        /\ Range(console) \cap ErrorSet = {}
        /\ Cardinality(Range(console)) = Len(console)
        /\ Cardinality(ErrorSet) = Len(ErrorPaths)
        /\ Range(console) \cup ErrorSet = Range(SubSeq(Slated(duplicates), 1, Processed))
        /\ \A p \in ErrorSet : fs[p] = fs0[p]
        /\ deleted_count = Processed - Len(ErrorPaths)
        /\ pc = "Summary" => Processed = Len(Slated(duplicates))

C4_Witness ==
    /\ pc = "Summary"
    /\ Len(ErrorPaths) >= 1
    /\ \E i \in 1..Len(Slated(duplicates)) - 1 :
          /\ Slated(duplicates)[i] \in ErrorSet
          /\ Slated(duplicates)[i + 1] \in Removed

\* C5: at every step deleted_count is the number of paths actually removed
\* and space_saved is the sum of their sizes as os.path.getsize reported
\* them right before the removal.
C5_ExactAccounting ==
    /\ deleted_count = Cardinality(Removed)
    /\ space_saved = SumSizes(Removed)
    /\ pc = "Summary" => messages[Len(messages)] = <<"Summary", <<Cardinality(Removed), SumSizes(Removed)>>>>

C5_Witness ==
    /\ pc = "Summary"
    /\ Cardinality(Removed) = 1
    /\ Len(ErrorPaths) = 1
    /\ space_saved = MaxFileLen

\* C6: a zero-byte file is in no group, neither at index 0 nor later, and is
\* never removed.
C6_NoZeroByteInGroup ==
    \A p \in Paths : ZeroByte(p) =>
        /\ \A g \in GroupIdx : p \notin Range(duplicates[g].paths)
        /\ p \notin Removed

C6_Witness ==
    /\ pc = "Summary"
    /\ Removed # {}
    /\ \E p \in Paths : ZeroByte(p) /\ fs0[p].kind = "file"

\* C7: every step of a run is a step of the flow
\* Idle -> Scanning -> (NoDuplicates | AwaitingConfirmation)
\*      -> (Deleting -> Summary) | Cancelled,
\* NoDuplicates exactly for an empty result, and the terminal states are left
\* by no step.
FlowEdges ==
    {<<"Idle", "Scanning">>, <<"Idle", "NoFolder">>,
     <<"Scanning", "NoDuplicates">>, <<"Scanning", "AwaitingConfirmation">>,
     <<"AwaitingConfirmation", "Cancelled">>, <<"AwaitingConfirmation", "Deleting">>,
     <<"Deleting", "Summary">>}
C7_Flow ==
    [][/\ pc' # pc => <<pc, pc'>> \in FlowEdges
       /\ pc' = "NoDuplicates" => duplicates = <<>> /\ fs' = fs0
       /\ pc' = "AwaitingConfirmation" => duplicates # <<>>
       /\ fs' # fs => pc = "Deleting"]_vars

\* C8: the returned dictionary is the index of discovery order restricted to
\* shared fingerprints: per content held by two or more non-empty readable
\* files one group, listing those paths once each in the order the walk
\* yielded them; no group for any other content.
DiscoveryOrder(c) ==
    LET same == SameContentPaths(c) IN SelectSeq(visited, LAMBDA p : p \in same)
C8_IndexRestricted ==
    ScanDone =>
        LET shared == SharedContents
        IN /\ Cardinality(DictKeys(duplicates)) = Len(duplicates)
           /\ DictKeys(duplicates) = {hexdigest(c) : c \in shared}
           /\ \A c \in shared : DictGet(duplicates, hexdigest(c)) = DiscoveryOrder(c)

C8_Witness ==
    /\ ScanDone
    /\ \E g \in GroupIdx : Len(duplicates[g].paths) = 3
    /\ \E p \in Paths : fs0[p].kind = "link"

\* C9: whatever order the walk took, the result has the same fingerprints,
\* per fingerprint the same set of paths, and the same number of files
\* slated for deletion, all determined by the tree alone.
C9_OrderIndependent ==
    ScanDone =>
        LET shared == SharedContents
        IN /\ {<<duplicates[g].hash, Range(duplicates[g].paths)>> : g \in GroupIdx}
                = {<<hexdigest(c), SameContentPaths(c)>> : c \in shared}
           /\ Len(Slated(duplicates))
                = Cardinality(UNION {SameContentPaths(c) : c \in shared})
                    - Cardinality(shared)

C9_Witness ==
    /\ ScanDone
    /\ Len(duplicates) = 1
    /\ Len(visited) = NumPaths
    /\ visited[1] > visited[2]
    /\ duplicates[1].paths[1] > duplicates[1].paths[2]

\* C10: every content that a non-empty readable file had at scan time is
\* still the content of a file some path resolves to.
C10_NoDataLoss ==
    \A p \in Paths : Countable(p) =>
        \E q \in Paths : StatOK(fs, q) /\ fs[Resolve(fs, q)].content = ContentAt0(p)

====
